---- MODULE Spec2Model ----
(***************************************************************************)
(* A model of bigsscuit.modules.data.database: the Database wrapper over   *)
(* an SQLite3 file (src/modules/data/database.py).                         *)
(*                                                                         *)
(* A Python str read from the seed file is a sequence of tokens: the       *)
(* whitespace characters "\t", " ", "\n", and word tokens that stand for   *)
(* a run of non-whitespace characters ("Other", "x", ...).  A database     *)
(* file is a record holding the rows of each table, in insertion order.    *)
(***************************************************************************)
EXTENDS Integers, Sequences, FiniteSets, TLC

VARIABLES
    files,  \* path -> the database file stored at that path
    tsv,    \* the lines of the bundled chem_class_map.tsv, header first
    dbs,    \* the Database instances whose construction has returned
    last    \* the latest call on the wrapper, with what the caller saw

vars == <<files, tsv, dbs, last>>

----------------------------------------------------------------------------
(* Bounds of the model. *)

MaxLines == 2

MaxRows == 2

----------------------------------------------------------------------------
(* Python str helpers. *)

TAB == "\t"

NL == "\n"

\* the characters str.rstrip() removes when called without arguments
Whitespace == {" ", "\t", "\n", "\r"}

RECURSIVE rstrip(_)
rstrip(s) ==
    IF s # <<>> /\ s[Len(s)] \in Whitespace
    THEN rstrip(SubSeq(s, 1, Len(s) - 1))
    ELSE s

\* the index of the first occurrence of sep in s, 0 when there is none
find(s, sep) ==
    IF \E i \in 1..Len(s) : s[i] = sep
    THEN CHOOSE i \in 1..Len(s) : s[i] = sep /\ \A j \in 1..(i - 1) : s[j] # sep
    ELSE 0

RECURSIVE split(_, _)
split(s, sep) ==
    LET i == find(s, sep) IN
    IF i = 0 THEN <<s>>
    ELSE <<SubSeq(s, 1, i - 1)>> \o split(SubSeq(s, i + 1, Len(s)), sep)

----------------------------------------------------------------------------
(* The engine: one SQLite3 database file. *)

TableNames == {"schema", "chem_class", "chem_subclass", "chem_subclass_map",
               "sqlite_sequence"}

\* a path at which no file exists
NoFile ==
    [exists |-> FALSE, tables |-> {}, schema |-> <<>>, chem_class |-> <<>>,
     chem_subclass |-> <<>>, chem_subclass_map |-> <<>>,
     sqlite_sequence |-> <<>>]

\* what sqlite3.connect() leaves at a path where nothing was: an empty database
EmptyDb == [NoFile EXCEPT !.exists = TRUE]

connect(f) == IF f.exists THEN f ELSE EmptyDb

\* tables whose id column is INTEGER PRIMARY KEY AUTOINCREMENT
AutoIncrement == {"chem_class", "chem_subclass"}

\* columns declared NOT NULL (the id of an AutoIncrement table is assigned)
Required(table) ==
    CASE table = "schema" -> {"ver"}
      [] table = "chem_class" -> {"name"}
      [] table = "chem_subclass" -> {"name", "class_id"}
      [] table = "chem_subclass_map" ->
             {"class_source", "type_source", "subclass_id"}
      [] OTHER -> {"name", "seq"}

\* the bundled schema.sql: its version comment and the rows its static
\* INSERT statements leave
sql_schema ==
    [declared |-> "1.0.0",
     schema |-> <<[ver |-> "1.0.0"]>>,
     chem_class |-> <<[id |-> 1, name |-> <<"Other">>],
                      [id |-> 2, name |-> <<"PKS">>]>>]

\* db_cur.executescript(sql_schema) on a connection to f
executescript(script, f) ==
    [connect(f) EXCEPT
        !.tables = TableNames,
        !.schema = script.schema,
        !.chem_class = script.chem_class,
        !.sqlite_sequence =
            <<[name |-> "chem_class", seq |-> Len(script.chem_class)]>>]

Max(S) == CHOOSE x \in S : \A y \in S : y <= x

\* the number of "?" placeholders of a statement
Placeholders(sql) ==
    CASE sql.stmt = "INSERT" -> Len(sql.cols)
      [] sql.stmt = "UPDATE" -> Len(sql.cols)
      [] sql.clause = "WHERE 1" -> 0
      [] sql.clause = "WHERE name=? AND class_id=?" -> 2
      [] OTHER -> 1

\* whether a row satisfies a WHERE clause under the bound parameters
Matches(row, clause, parameters) ==
    CASE clause = "WHERE 1" -> TRUE
      [] clause = "WHERE name=? AND class_id=?" ->
             row.name = parameters[1] /\ row.class_id = parameters[2]
      [] clause = "WHERE id=?" -> row.id = parameters[1]
      [] clause = "WHERE name=?" -> row.name = parameters[1]

RECURSIVE Filter(_, _, _)
Filter(rows, clause, parameters) ==
    IF rows = <<>> THEN <<>>
    ELSE (IF Matches(Head(rows), clause, parameters)
          THEN <<Head(rows)>> ELSE <<>>)
         \o Filter(Tail(rows), clause, parameters)

\* dict_factory: a result row as a mapping from each column of the cursor's
\* description to the row's value at that position
dict_factory(description, row) ==
    [col \in {description[i] : i \in 1..Len(description)} |->
        row[CHOOSE i \in 1..Len(description) :
               description[i] = col
               /\ \A j \in (i + 1)..Len(description) : description[j] # col]]

\* the columns "*" stands for: the stored columns of the table
Columns(table) ==
    CASE table = "schema" -> <<"ver">>
      [] table = "chem_class" -> <<"id", "name">>
      [] table = "chem_subclass" -> <<"id", "name", "class_id">>
      [] table = "chem_subclass_map" ->
             <<"class_source", "type_source", "subclass_id">>
      [] OTHER -> <<"name", "seq">>

Result(f, outcome, rows, lastrowid) ==
    [file |-> f, outcome |-> outcome, rows |-> rows, lastrowid |-> lastrowid]

\* the stored row an INSERT of cols/parameters makes, given the id it gets
NewRow(table, cols, parameters, id) ==
    [c \in {Columns(table)[i] : i \in 1..Len(Columns(table))} |->
        IF c \in {cols[i] : i \in 1..Len(cols)}
        THEN parameters[CHOOSE i \in 1..Len(cols) : cols[i] = c]
        ELSE id]

\* the current sequence value the engine keeps for an AutoIncrement table
SeqOf(f, table) ==
    IF \E i \in 1..Len(f.sqlite_sequence) : f.sqlite_sequence[i].name = table
    THEN f.sqlite_sequence[CHOOSE i \in 1..Len(f.sqlite_sequence) :
                               f.sqlite_sequence[i].name = table].seq
    ELSE 0

\* sqlite_sequence after a row with this id went into the table
SeqAfter(f, table, id) ==
    IF table \notin AutoIncrement THEN f.sqlite_sequence
    ELSE IF \E i \in 1..Len(f.sqlite_sequence) :
                f.sqlite_sequence[i].name = table
    THEN [i \in 1..Len(f.sqlite_sequence) |->
            IF f.sqlite_sequence[i].name = table
            THEN [name |-> table, seq |-> Max({id, f.sqlite_sequence[i].seq})]
            ELSE f.sqlite_sequence[i]]
    ELSE Append(f.sqlite_sequence, [name |-> table, seq |-> id])

\* the rowid the engine assigns to a row inserted without one
NextRowid(f, table) ==
    IF table \in AutoIncrement
    THEN Max({SeqOf(f, table)} \cup {f[table][i].id : i \in 1..Len(f[table])}) + 1
    ELSE Len(f[table]) + 1

\* cursor.execute(sql, parameters) of a connection to the file f0, committed
\* on success and rolled back on an error
execute(sql, f0, parameters) ==
    LET f == connect(f0)
        given == {sql.cols[i] : i \in 1..Len(sql.cols)}
        all == {Columns(sql.table)[i] : i \in 1..Len(Columns(sql.table))}
    IN
    IF sql.table \notin f.tables THEN Result(f, "OperationalError", <<>>, 0)
    ELSE IF Placeholders(sql) # Len(parameters)
    THEN Result(f, "ProgrammingError", <<>>, 0)
    ELSE IF sql.stmt = "SELECT" THEN
        LET description ==
                IF sql.props = <<"*">> THEN Columns(sql.table) ELSE sql.props
            found == Filter(f[sql.table], sql.clause, parameters)
        IN
        IF \E i \in 1..Len(description) : description[i] \notin all
        THEN Result(f, "OperationalError", <<>>, 0)
        ELSE Result(f, "ok",
                    [k \in 1..Len(found) |->
                        dict_factory(description,
                            [i \in 1..Len(description) |->
                                found[k][description[i]]])],
                    0)
    ELSE IF sql.stmt = "INSERT" THEN
        IF sql.cols = <<>> \/ ~(given \subseteq all)
        THEN Result(f, "OperationalError", <<>>, 0)
        ELSE IF ~((Required(sql.table) \ {"id"}) \subseteq given)
        THEN Result(f, "IntegrityError", <<>>, 0)
        ELSE
        LET id == IF "id" \in given
                  THEN parameters[CHOOSE i \in 1..Len(sql.cols) :
                                      sql.cols[i] = "id"]
                  ELSE NextRowid(f, sql.table)
        IN
        IF "id" \in given
           /\ \E i \in 1..Len(f[sql.table]) : f[sql.table][i].id = id
        THEN Result(f, "IntegrityError", <<>>, 0)
        ELSE Result([f EXCEPT
                        ![sql.table] =
                            Append(@, NewRow(sql.table, sql.cols,
                                             parameters, id)),
                        !.sqlite_sequence = SeqAfter(f, sql.table, id)],
                    "ok", <<>>, id)
    ELSE \* UPDATE <table> SET <col>=?
        Result([f EXCEPT
                   ![sql.table] =
                       [i \in 1..Len(@) |->
                           [@[i] EXCEPT ![sql.cols[1]] = parameters[1]]]],
               "ok", <<>>, 0)

----------------------------------------------------------------------------
(* database.py *)

\* "if parameters" is false for None and for an empty tuple: the statement
\* is then executed without bindings
execute_sql(sql, f, parameters) ==
    execute(sql, f, IF Len(parameters) > 0 THEN parameters ELSE <<>>)

query(f, sql, parameters) == execute_sql(sql, f, parameters)

select(f, table, clause, parameters, props) ==
    query(f,
          [stmt |-> "SELECT",
           props |-> IF Len(props) < 1 THEN <<"*">> ELSE props,
           table |-> table, clause |-> clause, cols |-> <<>>],
          parameters)

\* a result whose lastrowid is the number of rows of the table
WithRowCount(r, table) == [r EXCEPT !.lastrowid = Len(r.file[table])]

\* insert returning the number of rows of the table instead of the rowid
insert_rowcount(f, table, data) ==
    WithRowCount(
        query(f,
              [stmt |-> "INSERT", table |-> table,
               cols |-> [i \in 1..Len(data) |-> data[i][1]],
               clause |-> "", props |-> <<>>],
              [i \in 1..Len(data) |-> data[i][2]]),
        table)

\* data is a dict: its (key, value) items in iteration order; keys and
\* values are collected in that order, the values bound to the keys' columns
insert(f, table, data) ==
    query(f,
          [stmt |-> "INSERT", table |-> table,
           cols |-> [i \in 1..Len(data) |-> data[i][1]],
           clause |-> "", props |-> <<>>],
          [i \in 1..Len(data) |-> data[i][2]])

\* self.schema_ver: the version the pattern finds in the schema script; the
\* pattern matches the literal 1.0.0 only, and .group() of no match raises
schema_ver ==
    IF sql_schema.declared = "1.0.0" THEN "1.0.0" ELSE "AttributeError"

\* the lookup of chem_class ids by name, built from the rows of chem_class
\* (a later row of the same name replaces an earlier one)
bs_classes_id(rows) ==
    [n \in {rows[i].name : i \in 1..Len(rows)} |->
        rows[CHOOSE i \in 1..Len(rows) :
                 rows[i].name = n
                 /\ \A j \in (i + 1)..Len(rows) : rows[j].name # n].id]

\* what a construction leaves: the file, how it ended, the data line at which
\* seeding raised (0: none), and the text of the exception
Ended(f, outcome, line, message) ==
    [file |-> f, outcome |-> outcome, line |-> line, message |-> message]

\* a lookup that never finds the subclass
existing_none(f, bs_subclass, bs_class_id) == <<>>

\* the rows of chem_subclass the seeding loop finds for a line
existing(f, bs_subclass, bs_class_id) ==
    select(f, "chem_subclass", "WHERE name=? AND class_id=?",
           <<bs_subclass, bs_class_id>>, <<>>).rows

\* the end of the loop body: the outcome of the chem_subclass_map insert
SeedMapped(map, k) ==
    IF map.outcome # "ok" THEN Ended(map.file, map.outcome, k, <<>>)
    ELSE Ended(map.file, "ok", 0, <<>>)

\* the loop body once bs_subclass_id is known (sub.lastrowid): the insert
\* into chem_subclass_map
SeedMap(sub, src_class, src, k) ==
    IF sub.outcome # "ok" THEN Ended(sub.file, sub.outcome, k, <<>>)
    ELSE SeedMapped(insert(sub.file, "chem_subclass_map",
                           <<(<<"class_source", src_class>>),
                             (<<"type_source", src>>),
                             (<<"subclass_id", sub.lastrowid>>)>>),
                    k)

\* a loop body that writes no mapping row when the subclass is already there
SeedExisting_merging(f, src_class, src, bs_subclass, bs_class_id, found, k) ==
    IF found # <<>> THEN Ended(f, "ok", 0, <<>>)
    ELSE SeedMap(insert(f, "chem_subclass",
                        <<(<<"name", bs_subclass>>),
                          (<<"class_id", bs_class_id>>)>>),
                 src_class, src, k)

\* the loop body once the existing rows are known: reuse the id of the one
\* found, or insert the subclass
SeedExisting(f, src_class, src, bs_subclass, bs_class_id, found, k) ==
    IF found # <<>> /\ Len(found) # 1
    THEN Ended(f, "AssertionError", k, <<>>)
    ELSE SeedMap(IF found # <<>>
                 THEN Result(f, "ok", <<>>, found[1].id)
                 ELSE insert(f, "chem_subclass",
                             <<(<<"name", bs_subclass>>),
                               (<<"class_id", bs_class_id>>)>>),
                 src_class, src, k)

\* the loop body once the fields are defaulted: the lookup of the class id
SeedTarget(f, classes, src_class, src, bs_class, bs_subclass, k) ==
    IF bs_class \notin DOMAIN classes THEN Ended(f, "KeyError", k, <<>>)
    ELSE SeedExisting(f, src_class, src, bs_subclass, classes[bs_class],
                      existing(f, bs_subclass, classes[bs_class]), k)

\* the loop body once the line is split: the unpacking into four names and
\* the defaulting of the empty ones
SeedFields(f, classes, fields, k) ==
    IF Len(fields) # 4 THEN Ended(f, "ValueError", k, <<>>)
    ELSE SeedTarget(f, classes, fields[1], fields[2],
                    IF fields[3] = <<>> THEN <<"Other">> ELSE fields[3],
                    IF fields[4] = <<>> THEN <<"other">> ELSE fields[4], k)

\* the body of the loop, for the k-th data line
SeedLine(f, classes, line, k) ==
    SeedFields(f, classes, split(rstrip(line), TAB), k)

RECURSIVE SeedLines(_, _, _, _)

\* the loop after the body ran on the k-th data line: an exception ends it
SeedRest(r, classes, lines, k) ==
    IF r.outcome # "ok" THEN r
    ELSE SeedLines(r.file, classes, Tail(lines), k + 1)

\* the loop over the data lines, from the k-th on
SeedLines(f, classes, lines, k) ==
    IF lines = <<>> THEN Ended(f, "ok", 0, <<>>)
    ELSE SeedRest(SeedLine(f, classes, Head(lines), k), classes, lines, k)

\* the seeding, given the rows selected from chem_class: build the lookup,
\* skip the header, loop over the data lines
SeedClasses(created, chem, lines) ==
    IF chem.outcome # "ok" THEN Ended(created, chem.outcome, 0, <<>>)
    ELSE SeedLines(created, bs_classes_id(chem.rows),
                   IF lines = <<>> THEN <<>> ELSE Tail(lines), 1)

\* the seeding of a database the schema script has run on
Seed(created, lines) ==
    SeedClasses(created,
                select(created, "chem_class", "WHERE 1", <<>>, <<>>), lines)

\* a creation that skips the schema script
CreateNew_noscript(f, lines) == Seed(connect(f), lines)

\* the file the script left, when seeding raised
RolledBack(created, r) ==
    IF r.outcome # "ok" THEN Ended(created, r.outcome, r.line, <<>>) ELSE r

RollbackSeed(created, lines) == RolledBack(created, Seed(created, lines))

\* a creation that undoes the seeding when a line raises
CreateNew_rollback(f, lines) == RollbackSeed(executescript(sql_schema, f), lines)

\* the else branch of __init__: create the database, run the schema script,
\* then seed chem_subclass and chem_subclass_map from the lines of the tsv
CreateNew(f, lines) == Seed(executescript(sql_schema, f), lines)

\* the comparison of the stored version with the bundled one
CheckStored(f, stored) ==
    IF stored.outcome # "ok" THEN Ended(f, stored.outcome, 0, <<>>)
    ELSE IF stored.rows = <<>> THEN Ended(f, "StopIteration", 0, <<>>)
    ELSE IF stored.rows[1].ver # schema_ver
    THEN Ended(f, "Exception", 0,
               <<"SQLite3 database exists but contains different schema ",
                 "version (", stored.rows[1].ver, " rather than ", schema_ver,
                 "), exiting!">>)
    ELSE Ended(f, "ok", 0, <<>>)

\* a check that accepts whatever version is stored
CheckExisting_any(f) == Ended(f, "ok", 0, <<>>)

\* the if branch of __init__: read the stored version and compare it
CheckExisting(f) ==
    CheckStored(f, execute_sql([stmt |-> "SELECT", props |-> <<"*">>,
                                table |-> "schema", clause |-> "WHERE 1",
                                cols |-> <<>>], f, <<>>))

\* a construction that creates and seeds whether or not the file exists
Database_init_always(f, lines) == CreateNew(f, lines)

\* Database.__init__ on the file found at db_path
Database_init(f, lines) ==
    IF schema_ver = "AttributeError" THEN Ended(f, "AttributeError", 0, <<>>)
    ELSE IF f.exists THEN CheckExisting(f) ELSE CreateNew(f, lines)

\* the value get_last_id makes of the rows selected from sqlite_sequence
LastId(r) ==
    IF r.outcome # "ok" THEN [outcome |-> r.outcome, value |-> 0]
    ELSE IF r.rows = <<>> THEN [outcome |-> "IndexError", value |-> 0]
    ELSE IF r.rows[1].seq \in Int
    THEN [outcome |-> "return", value |-> r.rows[1].seq]
    ELSE [outcome |-> "return", value |-> -1]

\* get_last_id of the instance self, whose file is f
get_last_id(self, f, table) ==
    IF "database" \notin DOMAIN self
    THEN [outcome |-> "AttributeError", value |-> 0]
    ELSE LastId(select(f, "sqlite_sequence", "WHERE name=?", table,
                       <<"seq">>))

----------------------------------------------------------------------------
(* The inputs: seed files, paths, and the arguments of the calls. *)

DbPaths == {"bigslice.db"}

Versions == {"1.0.0", "0.9.0"}

Header ==
    <<"class_source", TAB, "type_source", TAB, "bs_class", TAB,
      "bs_subclass", NL>>

\* a data line of four tab-separated fields
Line(src, cls, sub) == <<"as", TAB, src, TAB>> \o cls \o <<TAB>> \o sub \o <<NL>>

DataLines ==
    {Line(src, cls, sub) :
        src \in {"t1", "t2"},
        cls \in {<<>>, <<"Other">>, <<"PKS">>, <<"Bogus">>},
        sub \in {<<>>, <<"x">>, <<"other">>}}
    \cup {<<"as", TAB, "t1", NL>>, <<NL>>,
          <<"as", TAB, "t2", TAB, "PKS", TAB, "x">>}

SeedFiles ==
    {<<>>} \cup
    UNION {{<<Header>> \o ls : ls \in [1..n -> DataLines]} : n \in 0..MaxLines}

\* the dicts handed to insert("chem_subclass", ...), as items in order
InsertData ==
    UNION {{<<(<<"name", n>>), (<<"class_id", c>>)>>,
            <<(<<"class_id", c>>), (<<"name", n>>)>>,
            <<(<<"id", i>>), (<<"name", n>>), (<<"class_id", c>>)>>,
            <<(<<"class_id", c>>), (<<"id", i>>), (<<"name", n>>)>>,
            <<(<<"name", n>>)>>} :
           n \in {<<"x">>, <<"y">>}, c \in {1, 2}, i \in {1, 5}}

SelectIds == 1..(5 + MaxRows)

----------------------------------------------------------------------------
(* The calls. *)

\* Database(db_path)
Construct(p) ==
    \E r \in {Database_init(files[p], tsv)} :
        /\ files' = [files EXCEPT ![p] = r.file]
        /\ dbs' = IF r.outcome = "ok"
                  THEN dbs \cup {[db_path |-> p, schema_ver |-> schema_ver]}
                  ELSE dbs
        /\ last' = [op |-> "Database", db_path |-> p,
                    existed |-> files[p].exists, outcome |-> r.outcome,
                    line |-> r.line, message |-> r.message]
        /\ UNCHANGED tsv

\* self.query("UPDATE schema SET ver=?", (v,))
QueryUpdateVer(self, v) ==
    \E r \in {query(files[self.db_path],
                    [stmt |-> "UPDATE", table |-> "schema",
                     cols |-> <<"ver">>, clause |-> "", props |-> <<>>],
                    <<v>>)} :
        /\ files' = [files EXCEPT ![self.db_path] = r.file]
        /\ last' = [op |-> "query", db_path |-> self.db_path,
                    outcome |-> r.outcome]
        /\ UNCHANGED <<tsv, dbs>>

\* self.insert(table, data)
Insert(self, table, data) ==
    \E r \in {insert(files[self.db_path], table, data)} :
        /\ Len(files[self.db_path][table]) < MaxRows
        /\ files' = [files EXCEPT ![self.db_path] = r.file]
        /\ last' = [op |-> "insert", db_path |-> self.db_path,
                    table |-> table, data |-> data,
                    outcome |-> IF r.outcome = "ok" THEN "return"
                                ELSE r.outcome,
                    value |-> r.lastrowid]
        /\ UNCHANGED <<tsv, dbs>>

\* self.select(table, clause, parameters, props).fetchall()
Select(self, table, clause, parameters, props) ==
    \E r \in {select(files[self.db_path], table, clause, parameters,
                     props)} :
        /\ files' = [files EXCEPT ![self.db_path] = r.file]
        /\ last' = [op |-> "select", db_path |-> self.db_path,
                    table |-> table, clause |-> clause,
                    parameters |-> parameters, props |-> props,
                    outcome |-> IF r.outcome = "ok" THEN "return"
                                ELSE r.outcome,
                    value |-> r.rows]
        /\ UNCHANGED <<tsv, dbs>>

\* self.get_last_id(table)
GetLastId(self, table) ==
    \E r \in {get_last_id(self, files[self.db_path], table)} :
        /\ last' = [op |-> "get_last_id", db_path |-> self.db_path,
                    table |-> table, outcome |-> r.outcome,
                    value |-> r.value]
        /\ UNCHANGED <<files, tsv, dbs>>

----------------------------------------------------------------------------
(* Construction and seeding, over every seed file. *)

Init ==
    /\ files = [p \in DbPaths |-> NoFile]
    /\ tsv \in SeedFiles
    /\ dbs = {}
    /\ last = [op |-> "none"]

Next ==
    \/ \E p \in DbPaths : Construct(p)
    \/ \E self \in dbs, v \in Versions : QueryUpdateVer(self, v)

Spec == Init /\ [][Next]_vars

(* The data-access calls, on databases seeded from one seed file. *)

InitData ==
    /\ files = [p \in DbPaths |-> NoFile]
    /\ tsv \in {<<Header>>, <<Header, Line("t1", <<"PKS">>, <<"x">>)>>}
    /\ dbs = {}
    /\ last = [op |-> "none"]

NextData ==
    \/ \E p \in DbPaths : Construct(p)
    \/ \E self \in dbs, data \in InsertData :
           Insert(self, "chem_subclass", data)
    \/ \E self \in dbs, i \in SelectIds, props \in {<<>>, <<"name">>} :
           Select(self, "chem_subclass", "WHERE id=?", <<i>>, props)
    \/ \E self \in dbs : GetLastId(self, "chem_subclass")

SpecData == InitData /\ [][NextData]_vars

----------------------------------------------------------------------------
(* The seed file as its format defines it. *)

\* the data lines: every line after the header
Lines == IF tsv = <<>> THEN <<>> ELSE Tail(tsv)

\* the tab-separated fields of a line, its line end left out
TsvFields(line) ==
    split(IF line # <<>> /\ line[Len(line)] = NL
          THEN SubSeq(line, 1, Len(line) - 1) ELSE line, TAB)

\* the (target_class, target_subclass) pair of a line after defaulting
Target(line) ==
    <<IF TsvFields(line)[3] = <<>> THEN <<"Other">> ELSE TsvFields(line)[3],
      IF TsvFields(line)[4] = <<>> THEN <<"other">> ELSE TsvFields(line)[4]>>

\* the names of the rows of chem_class
ClassNames ==
    {sql_schema.chem_class[i].name : i \in 1..Len(sql_schema.chem_class)}

\* the id of the chem_class row of that name
ClassId(name) ==
    sql_schema.chem_class[CHOOSE i \in 1..Len(sql_schema.chem_class) :
                              sql_schema.chem_class[i].name = name].id

\* whether the row sub is the chem_subclass row of a target pair
IsSubclassOf(sub, target) ==
    sub.name = target[2] /\ sub.class_id = ClassId(target[1])

\* whether the last call was Database(p) on a path with no file
Fresh(p) == last.op = "Database" /\ last.db_path = p /\ ~last.existed

----------------------------------------------------------------------------
(* Claims. *)

\* C1: constructing on an existing file whose stored schema version differs
\* from the bundled one raises an error whose message names the stored and
\* then the bundled version, and leaves the file as it was.
C1_MismatchRaisesAndLeavesFile ==
    [][\A p \in DbPaths :
          (/\ last'.op = "Database"
           /\ last'.db_path = p
           /\ files[p].exists
           /\ files[p].schema # <<>>
           /\ files[p].schema[1].ver # sql_schema.declared)
          => /\ files' = files
             /\ last'.outcome = "Exception"
             /\ \E i, j \in 1..Len(last'.message) :
                   /\ i < j
                   /\ last'.message[i] = files[p].schema[1].ver
                   /\ last'.message[j] = sql_schema.declared]_vars

C1_Witness ==
    \E p \in DbPaths :
        /\ last.op = "Database" /\ last.db_path = p /\ last.existed
        /\ last.outcome = "Exception"
        /\ files[p].schema = <<[ver |-> "0.9.0"]>>
        /\ files[p].chem_subclass_map # <<>>

\* C2: constructing on a path with no file creates the file and runs the
\* schema script: afterwards the schema table holds exactly one row, whose
\* version is the one the bundled script declares.
C2_FreshHasOneSchemaRow ==
    \A p \in DbPaths :
        Fresh(p) =>
            /\ files[p].exists
            /\ Len(files[p].schema) = 1
            /\ files[p].schema[1].ver = sql_schema.declared
            /\ "schema" \in files[p].tables

C2_Witness ==
    \E p \in DbPaths : Fresh(p) /\ files[p].exists /\ last.outcome = "ok"

\* C3: chem_subclass holds one row per (name, class_id) pair: exactly one
\* row for each target pair among the seeded lines, and the mapping rows of
\* all lines sharing a pair carry the id of that pair's row.
C3_SubclassUnique ==
    \A p \in DbPaths :
        LET sub == files[p].chem_subclass
            map == files[p].chem_subclass_map
        IN
        /\ \A i, j \in 1..Len(sub) :
              (sub[i].name = sub[j].name /\ sub[i].class_id = sub[j].class_id)
              => i = j
        /\ Len(map) <= Len(Lines)
        /\ Len(sub) = Cardinality({Target(Lines[i]) : i \in 1..Len(map)})
        /\ \A i, j \in 1..Len(map) :
              Target(Lines[i]) = Target(Lines[j])
              => /\ map[i].subclass_id = map[j].subclass_id
                 /\ \E r \in 1..Len(sub) :
                       /\ sub[r].id = map[i].subclass_id
                       /\ IsSubclassOf(sub[r], Target(Lines[i]))

C3_Witness ==
    \E p \in DbPaths :
        /\ Len(files[p].chem_subclass_map) = 2
        /\ Len(files[p].chem_subclass) = 1
        /\ Target(Lines[1]) = Target(Lines[2])
        /\ Lines[1] # Lines[2]
        /\ files[p].chem_subclass_map[2].subclass_id =
               files[p].chem_subclass[1].id

\* C4: a data line whose target_class or target_subclass field is empty is
\* accepted, the empty class read as "Other" and the empty subclass as
\* "other": its mapping row references the chem_subclass row of that pair.
C4_EmptyTargetsDefault ==
    \A p \in DbPaths :
        (/\ Fresh(p)
         /\ Lines # <<>>
         /\ Len(TsvFields(Lines[1])) = 4
         /\ TsvFields(Lines[1])[3] = <<>> \/ TsvFields(Lines[1])[4] = <<>>
         /\ Target(Lines[1])[1] \in ClassNames)
        => /\ last.line # 1
           /\ files[p].chem_subclass_map # <<>>
           /\ \E r \in 1..Len(files[p].chem_subclass) :
                 /\ files[p].chem_subclass[r].id =
                        files[p].chem_subclass_map[1].subclass_id
                 /\ IsSubclassOf(files[p].chem_subclass[r], Target(Lines[1]))

\* C5: a returning insert appends one row whose id is the returned value,
\* an id no earlier row had, and whose columns hold the values of data; a
\* select by that id right after it returns exactly that row.
C5_InsertThenSelect ==
    [][/\ (last'.op = "insert" /\ last'.outcome = "return")
          => LET old == files[last'.db_path][last'.table]
                 new == files'[last'.db_path][last'.table]
             IN
             /\ Len(new) = Len(old) + 1
             /\ SubSeq(new, 1, Len(old)) = old
             /\ new[Len(new)].id = last'.value
             /\ \A i \in 1..Len(old) : old[i].id # last'.value
             /\ \A k \in 1..Len(last'.data) :
                   new[Len(new)][last'.data[k][1]] = last'.data[k][2]
       /\ (/\ last.op = "insert" /\ last.outcome = "return"
           /\ last'.op = "select"
           /\ last'.db_path = last.db_path /\ last'.table = last.table
           /\ last'.clause = "WHERE id=?"
           /\ last'.parameters = <<last.value>>
           /\ last'.props = <<>>)
          => /\ last'.outcome = "return"
             /\ last'.value =
                    <<[c \in {"id"} \cup
                             {last.data[k][1] : k \in 1..Len(last.data)} |->
                         IF c = "id" THEN last.value
                         ELSE last.data[CHOOSE k \in 1..Len(last.data) :
                                            last.data[k][1] = c][2]]>>]_vars

C5_Witness ==
    /\ last.op = "insert" /\ last.outcome = "return"
    /\ last.value = 6
    /\ last.data = <<(<<"class_id", 2>>), (<<"name", <<"y">>>>)>>
    /\ \E i \in 1..Len(files[last.db_path].chem_subclass) :
          files[last.db_path].chem_subclass[i] =
              [id |-> 6, name |-> <<"y">>, class_id |-> 2]

\* C6: get_last_id(table) called right after a returning insert into the
\* table returns the id that insert returned.
C6_LastIdIsLatestInsert ==
    [][(/\ last.op = "insert" /\ last.outcome = "return"
        /\ last'.op = "get_last_id"
        /\ last'.db_path = last.db_path /\ last'.table = last.table)
       => (last'.outcome = "return" /\ last'.value = last.value)]_vars

\* C7: get_last_id(table) returns -1 when the sequence table holds no row
\* for the table.
C7_NoSequenceGivesSentinel ==
    (/\ last.op = "get_last_id"
     /\ \A i \in 1..Len(files[last.db_path].sqlite_sequence) :
           files[last.db_path].sqlite_sequence[i].name # last.table)
    => (last.outcome = "return" /\ last.value = -1)

\* C8: a seeding run that completes leaves one chem_subclass_map row per
\* data line, in the order of the lines, each holding the line's source
\* class and source type and the id of the line's chem_subclass row.
C8_OneMapRowPerLine ==
    \A p \in DbPaths :
        (Fresh(p) /\ last.outcome = "ok")
        => /\ Len(files[p].chem_subclass_map) = Len(Lines)
           /\ \A i \in 1..Len(Lines) :
                 /\ files[p].chem_subclass_map[i].class_source =
                        TsvFields(Lines[i])[1]
                 /\ files[p].chem_subclass_map[i].type_source =
                        TsvFields(Lines[i])[2]
                 /\ \E r \in 1..Len(files[p].chem_subclass) :
                       /\ files[p].chem_subclass[r].id =
                              files[p].chem_subclass_map[i].subclass_id
                       /\ IsSubclassOf(files[p].chem_subclass[r],
                                       Target(Lines[i]))

C8_Witness ==
    \E p \in DbPaths :
        /\ Fresh(p) /\ last.outcome = "ok"
        /\ Len(Lines) = 2 /\ Lines[1] = Lines[2]
        /\ Len(files[p].chem_subclass_map) = 2
        /\ files[p].chem_subclass_map[1] = files[p].chem_subclass_map[2]

\* whether seeding raises on a line: it does not split into four fields, or
\* its target class is not a row of chem_class
Raises(line) ==
    \/ Len(split(rstrip(line), TAB)) # 4
    \/ (IF split(rstrip(line), TAB)[3] = <<>> THEN <<"Other">>
        ELSE split(rstrip(line), TAB)[3]) \notin ClassNames

\* C9: when seeding raises on data line k, the schema row and the rows
\* written for lines 1..k-1 stay in the file, and a later construction on
\* that partially seeded file returns without writing anything.
C9_PartialSeedStays ==
    /\ [](\A p \in DbPaths :
            (Fresh(p) /\ last.outcome \in {"ValueError", "KeyError"})
            => /\ last.line \in 1..Len(Lines)
               /\ Raises(Lines[last.line])
               /\ \A i \in 1..(last.line - 1) : ~Raises(Lines[i])
               /\ files[p].exists
               /\ files[p].schema = <<[ver |-> sql_schema.declared]>>
               /\ Len(files[p].chem_subclass_map) = last.line - 1
               /\ \A i \in 1..(last.line - 1) :
                     /\ files[p].chem_subclass_map[i].class_source =
                            TsvFields(Lines[i])[1]
                     /\ files[p].chem_subclass_map[i].type_source =
                            TsvFields(Lines[i])[2]
               /\ Len(files[p].chem_subclass) =
                      Cardinality({Target(Lines[i]) :
                                      i \in 1..(last.line - 1)}))
    /\ [][\A p \in DbPaths :
            (/\ files[p].exists
             /\ Len(files[p].chem_subclass_map) < Len(Lines)
             /\ files[p].schema = <<[ver |-> sql_schema.declared]>>
             /\ last'.op = "Database" /\ last'.db_path = p)
            => /\ last'.outcome = "ok"
               /\ files' = files
               /\ \E self \in dbs' : self.db_path = p]_vars

C9_Witness ==
    \E p \in DbPaths :
        /\ last.op = "Database" /\ last.db_path = p /\ last.existed
        /\ last.outcome = "ok"
        /\ Len(Lines) = 2
        /\ Len(files[p].chem_subclass_map) = 1

\* C10: constructing on an existing file whose stored version equals the
\* bundled one returns and writes nothing.
C10_ExistingIsNotWritten ==
    [][\A p \in DbPaths :
          (/\ files[p].exists
           /\ files[p].schema # <<>>
           /\ files[p].schema[1].ver = sql_schema.declared
           /\ last'.op = "Database" /\ last'.db_path = p)
          => (files' = files /\ last'.outcome = "ok")]_vars

C10_Witness ==
    \E p \in DbPaths :
        /\ last.op = "Database" /\ last.db_path = p /\ last.existed
        /\ last.outcome = "ok"
        /\ Lines # <<>>
        /\ Len(files[p].chem_subclass_map) = Len(Lines)

====
